---- MODULE Spec2Model ----
(* Retrieval-augmented chatbot service: the loader and vector-store          *)
(* lifecycle (app/core/loader.py), the Groq chat-model adapter and the      *)
(* conversational retrieval chain (app/core/chatbot.py), and the request    *)
(* handlers with their process-global app_state (app/api.py).               *)
EXTENDS Integers, Sequences, FiniteSets, TLC

VARIABLES
    phase,          \* "boot" before lifespan startup, "serving", "stopped"
    apiKey,         \* GROQ_API_KEY is set in the environment
    docDirExists,   \* the documents directory exists
    files,          \* directory listing of the documents directory
    persisted,      \* the vector_store directory: [exists, entries]
    removed,        \* open store handles whose directory was rmtree'd: [id, entries]
    app_state,      \* [vector_store, chain, initialized]
    memory,         \* ConversationBufferMemory of the current chain
    served,         \* chats the current chain has answered
    last,           \* observation of the last request served
    gen,            \* a _generate call: its messages, the reply, the result
    ld,             \* a load_documents call: the directory and the result
    vs              \* a create_vector_store call: its arguments, the result

vars == <<phase, apiKey, docDirExists, files, persisted, removed,
          app_state, memory, served, last, gen, ld, vs>>

sysvars == <<phase, apiKey, docDirExists, files, persisted, removed,
             app_state, memory, served, last>>

----------------------------------------------------------------------------
(* Bounds                                                                   *)

MaxChats == 2       \* successful chats kept in one chain's memory
MaxMsgs == 2        \* messages in one _generate call
MaxFiles == 3       \* files in one directory listing
MaxChunks == 2      \* chunks handed to one create_vector_store call

(* Program constants                                                        *)

RETRIEVER_K == 3
HTTP_OK == 200
NoPage == 0 - 1     \* metadata without a "page" key
Missing == "<missing>"  \* metadata without a "source" or a "type" key

None == "None"

----------------------------------------------------------------------------
(* Small helpers                                                            *)

Range(s) == {s[i] : i \in 1..Len(s)}

RECURSIVE SeqsUpTo(_, _)
SeqsUpTo(S, n) ==
    IF n = 0 THEN {<<>>}
    ELSE LET shorter == SeqsUpTo(S, n - 1)
         IN  shorter \cup {Append(s, x) : s \in {t \in shorter : Len(t) = n - 1}, x \in S}

Min(a, b) == IF a < b THEN a ELSE b

(* The element of a one-element set: {e(x) : x \in {v}} binds v once.       *)
The(S) == CHOOSE x \in S : TRUE

----------------------------------------------------------------------------
(* Loader: load_documents, split_documents                                  *)

(* A file of the documents directory: its name, its extension, whether its  *)
(* loader extracts it, and the text of each record it yields (a PDF yields  *)
(* one record per page, a TXT one record). A text is a sequence of pieces,  *)
(* each piece one chunk-sized window; the empty text has no piece.          *)
File(name, ext, ok, texts) == [name |-> name, ext |-> ext, ok |-> ok, texts |-> texts]

GoodTxt == File("notes.txt", "txt", TRUE, << <<"n1">> >>)
BlankTxt == File("blank.txt", "txt", TRUE, << <<>> >>)
BadTxt == File("latin1.txt", "txt", FALSE, << <<"x1">> >>)
GoodPdf == File("book.pdf", "pdf", TRUE, << <<"b1">>, <<"b2">> >>)
BadPdf == File("corrupt.pdf", "pdf", FALSE, << <<"x2">> >>)

(* Document records of one file, as the loader's load() returns them and    *)
(* the metadata loop tags them.                                             *)
FileRecords(f) ==
    [i \in 1..Len(f.texts) |->
        [text |-> f.texts[i], source |-> f.name, type |-> f.ext,
         page |-> IF f.ext = "pdf" THEN i - 1 ELSE NoPage]]

(* loader.load() of one file: the records, or an exception.                 *)
LoaderLoad(f) ==
    IF f.ok THEN [raised |-> FALSE, docs |-> FileRecords(f)]
    ELSE [raised |-> TRUE, docs |-> <<>>]

(* A loop body without the try/except.                                      *)
LoadOneUncaught(f) == LoaderLoad(f)

(* The try/except around one file: the exception is printed and the file    *)
(* contributes nothing.                                                     *)
LoadOne(f) ==
    The({IF r.raised THEN [raised |-> FALSE, docs |-> <<>>] ELSE r : r \in {LoaderLoad(f)}})

(* The for loop over the files of one extension; an exception that leaves   *)
(* the loop body ends the whole call.                                       *)
RECURSIVE LoadAll(_)
LoadAll(fs) ==
    IF fs = <<>> THEN [raised |-> FALSE, docs |-> <<>>]
    ELSE The({IF first.raised THEN [raised |-> TRUE, docs |-> <<>>]
              ELSE IF rest.raised THEN rest
              ELSE [raised |-> FALSE, docs |-> first.docs \o rest.docs] :
                    first \in {LoadOne(Head(fs))}, rest \in {LoadAll(Tail(fs))}})

Glob(listing, ext) == SelectSeq(listing, LAMBDA f : f.ext = ext)

(* load_documents: [raised, docs, dirExists]                                *)
load_documents(dirExists, listing) ==
    IF ~dirExists
    THEN [raised |-> FALSE, docs |-> <<>>, dirExists |-> TRUE]
    ELSE The({IF pdfs.raised \/ txts.raised
              THEN [raised |-> TRUE, docs |-> <<>>, dirExists |-> TRUE]
              ELSE [raised |-> FALSE, docs |-> pdfs.docs \o txts.docs, dirExists |-> TRUE] :
                    pdfs \in {LoadAll(Glob(listing, "pdf"))},
                    txts \in {LoadAll(Glob(listing, "txt"))}})

(* split_documents: one chunk per piece of each record, metadata inherited. *)
SplitOne(d) ==
    [i \in 1..Len(d.text) |->
        [text |-> d.text[i], source |-> d.source, type |-> d.type, page |-> d.page]]

RECURSIVE split_documents(_)
split_documents(docs) ==
    IF docs = <<>> THEN <<>> ELSE SplitOne(Head(docs)) \o split_documents(Tail(docs))

----------------------------------------------------------------------------
(* Vector store: create_vector_store, initialize_rag_system                 *)

Absent == [exists |-> FALSE, entries |-> <<>>]
Index(entries) == [exists |-> TRUE, entries |-> entries]

(* Faults of the external services a call may meet.                         *)
Faults == {"none", "embeddings", "load", "build_nodir", "build_partial"}

(* A test that forgets force_recreate.                                      *)
ShouldLoadAlways(dir, force_recreate) == dir.exists

(* "os.path.exists(persist_directory) and not force_recreate"               *)
ShouldLoad(dir, force_recreate) == dir.exists /\ ~force_recreate

(* A load that adds the chunks to the loaded index.                         *)
LoadExistingMerge(dir, chunks) == [exists |-> TRUE, entries |-> dir.entries \o chunks]

(* Chroma(persist_directory=...): the directory as it is; chunks play no    *)
(* part.                                                                    *)
LoadExisting(dir, chunks) == dir

(* create_vector_store: [result, persisted, deleted]                        *)
(* result is "store" (a Chroma handle), None, or "raise".                   *)
create_vector_store(chunks, dir, force_recreate, fault) ==
    IF fault = "embeddings"
    THEN [result |-> "raise", persisted |-> dir, deleted |-> FALSE]
    ELSE IF ShouldLoad(dir, force_recreate)
    THEN [result |-> IF fault = "load" THEN "raise" ELSE "store",
          persisted |-> LoadExisting(dir, chunks), deleted |-> FALSE]
    ELSE LET deleted == force_recreate /\ dir.exists
             cleared == IF deleted THEN Absent ELSE dir
         IN  IF chunks = <<>> /\ ~cleared.exists
             THEN [result |-> None, persisted |-> cleared, deleted |-> deleted]
             ELSE IF fault = "build_nodir"
             THEN [result |-> "raise", persisted |-> cleared, deleted |-> deleted]
             ELSE IF fault = "build_partial"
             THEN [result |-> "raise", persisted |-> Index(<<>>), deleted |-> deleted]
             ELSE [result |-> "store",
                   persisted |-> Index(cleared.entries \o chunks),
                   deleted |-> deleted]

(* initialize_rag_system: [result, persisted, deleted, dirExists]           *)
initialize_rag_system(dirExists, listing, dir, force_recreate, fault) ==
    The({IF loaded.raised
         THEN [result |-> "raise", persisted |-> dir, deleted |-> FALSE,
               dirExists |-> loaded.dirExists]
         ELSE IF loaded.docs = <<>> /\ force_recreate
         THEN [result |-> None, persisted |-> dir, deleted |-> FALSE,
               dirExists |-> loaded.dirExists]
         ELSE The({[result |-> made.result, persisted |-> made.persisted,
                    deleted |-> made.deleted, dirExists |-> loaded.dirExists] :
                        made \in {create_vector_store(
                                    IF loaded.docs # <<>> THEN split_documents(loaded.docs)
                                    ELSE <<>>,
                                    dir, force_recreate, fault)}}) :
            loaded \in {load_documents(dirExists, listing)}})

----------------------------------------------------------------------------
(* Language model adapter: GroqChatModel._generate                          *)

(* A LangChain message: its class ("human", "ai", "chat", "system",        *)
(* "tool"), the role field a ChatMessage carries, and its content.         *)
Msg(type, role, content) == [type |-> type, role |-> role, content |-> content]
HumanMessage(content) == Msg("human", "", content)
AIMessage(content) == Msg("ai", "", content)

(* A message content: a string, or a list of content parts.                 *)
Text(s) == [kind |-> "str", v |-> <<s>>]
Parts(s) == [kind |-> "list", v |-> <<s>>]

(* str(msg.content): a string is itself, a list becomes its repr.           *)
Str(content) ==
    IF content.kind = "list"
    THEN [kind |-> "str", v |-> <<"['">> \o content.v \o <<"']">>]
    ELSE content

(* A translation that coerces every unrecognized role to "user".            *)
FormatMessageCoerce(msg) ==
    IF msg.type = "human" THEN [role |-> "user", content |-> msg.content]
    ELSE IF msg.type = "ai" THEN [role |-> "assistant", content |-> msg.content]
    ELSE IF msg.type = "chat" /\ msg.role \in {"user", "assistant", "system"}
    THEN [role |-> msg.role, content |-> msg.content]
    ELSE [role |-> "user", content |-> Str(msg.content)]

(* The isinstance chain of the translation loop.                            *)
FormatMessage(msg) ==
    IF msg.type = "human" THEN [role |-> "user", content |-> msg.content]
    ELSE IF msg.type = "ai" THEN [role |-> "assistant", content |-> msg.content]
    ELSE IF msg.type = "chat" THEN [role |-> msg.role, content |-> msg.content]
    ELSE [role |-> "user", content |-> Str(msg.content)]

FormatMessages(messages) == [i \in 1..Len(messages) |-> FormatMessage(messages[i])]

(* What the endpoint does with one POST: a response with a status and a     *)
(* body, or no response within the timeout.                                 *)
Reply(status, text) == [kind |-> "response", status |-> status, text |-> text]
Timeout == [kind |-> "timeout", status |-> 0, text |-> ""]

Answers == {"a1"}
HttpReplies ==
    {Reply(HTTP_OK, a) : a \in Answers}
        \cup {Reply(500, "internal error"), Timeout}

(* Requests posted for one _generate call: the single requests.post.        *)
PostedRequests(payload, reply) == <<payload>>

(* _generate: [sent, raised, error, content]                                *)
(* sent is the sequence of HTTP requests issued, error the exception.       *)
NoError == [exc |-> "", status |-> 0, body |-> ""]

(* An adapter that returns the body of an error response as the reply.      *)
GenerateOutcomeSwallow(reply) ==
    IF reply.kind = "timeout"
    THEN [raised |-> TRUE, content |-> "",
          error |-> [exc |-> "Timeout", status |-> 0, body |-> ""]]
    ELSE [raised |-> FALSE, content |-> reply.text, error |-> NoError]

GenerateOutcome(reply) ==
    IF reply.kind = "timeout"
    THEN [raised |-> TRUE, content |-> "",
          error |-> [exc |-> "Timeout", status |-> 0, body |-> ""]]
    ELSE IF reply.status # HTTP_OK
    THEN [raised |-> TRUE, content |-> "",
          error |-> [exc |-> "ValueError", status |-> reply.status, body |-> reply.text]]
    ELSE [raised |-> FALSE, content |-> reply.text, error |-> NoError]

_generate(messages, reply) ==
    The({[sent |-> PostedRequests(FormatMessages(messages), reply),
          raised |-> outcome.raised, error |-> outcome.error,
          content |-> outcome.content] :
            outcome \in {GenerateOutcome(reply)}})

----------------------------------------------------------------------------
(* Conversational retrieval chain built by create_chatbot                   *)

(* ChatRequest bodies: a question, with or without a chat_history.          *)
ChatRequests ==
    {[question |-> "q1", chat_history |-> <<>>],
     [question |-> "q2", chat_history |-> <<HumanMessage("q0")>>]}

(* A turn that puts the answer before the question.                         *)
TurnSwapped(question, answer) == <<AIMessage(answer), HumanMessage(question)>>

(* The two messages save_context adds for one call: the input as a          *)
(* HumanMessage, then the output as an AIMessage.                           *)
Turn(question, answer) == <<HumanMessage(question), AIMessage(answer)>>

(* A save that keeps only the latest turn.                                  *)
SaveContextLatest(mem, question, answer) ==
    <<HumanMessage(question), AIMessage(answer)>>

(* ConversationBufferMemory.save_context: the turn is appended in one call. *)
SaveContext(mem, question, answer) == mem \o Turn(question, answer)

(* Chain.prep_outputs: the turn is saved only when the call produced an     *)
(* answer; a call that raised never reaches it.                             *)
(* A save that records the question before the answer is known.            *)
prep_outputsEager(mem, question, raised, answer) ==
    IF raised THEN mem \o <<HumanMessage(question)>> ELSE SaveContext(mem, question, answer)

prep_outputs(mem, question, raised, answer) ==
    IF raised THEN mem ELSE SaveContext(mem, question, answer)

(* The chain's rendering of the memory into the chat_history text.          *)
RolePrefix(turn) == IF turn.type = "human" THEN "Human: " ELSE "Assistant: "

RECURSIVE get_chat_history(_)
get_chat_history(mem) ==
    IF mem = <<>> THEN <<>>
    ELSE <<"\n", RolePrefix(Head(mem)), Head(mem).content>> \o get_chat_history(Tail(mem))

(* custom_prompt filled in: the three sections of the template.             *)
AssemblePrompt(docs, chat_history, question) ==
    [context |-> [i \in 1..Len(docs) |-> docs[i].text],
     chat_history |-> chat_history,
     question |-> question]

CondensePrompt(chat_history, question) ==
    [context |-> <<>>, chat_history |-> chat_history, question |-> question]

(* Rankings a similarity search over entries can return: min(k, n)          *)
(* distinct entries in some order of similarity.                            *)
Rankings(entries, k) ==
    LET n == Len(entries)
        m == Min(k, n)
    IN  {[i \in 1..m |-> entries[p[i]]] :
            p \in {q \in [1..m -> 1..n] : \A i, j \in 1..m : i # j => q[i] # q[j]}}

(* What the retriever of a store handle can answer for a query: a ranking   *)
(* of the entries of its directory, or an error of the embedding service    *)
(* or the store. A handle whose directory was removed after it was opened   *)
(* may see its old entries, the directory as it is now, or fail.            *)
RetrievalOutcomes(store, dir, gone) ==
    LET old == {g.entries : g \in {h \in gone : h.id = store.id}}
        visible == IF old = {} THEN {dir.entries} ELSE old \cup {dir.entries}
    IN  {[raised |-> TRUE, docs |-> <<>>]}
            \cup {[raised |-> FALSE, docs |-> r] :
                    r \in UNION {Rankings(e, RETRIEVER_K) : e \in visible}}

(* chain.invoke(inputs): prep_inputs loads the memory over the inputs, the  *)
(* chain condenses the question when there is history, retrieves, runs the  *)
(* combine-documents prompt, and prep_outputs saves the turn.               *)
(* [raised, error, answer, docs, memory, sent, queries, prompt, steps]      *)
NoPrompt == [context |-> <<>>, chat_history |-> <<>>, question |-> ""]

(* A chain that condenses every question, history or not.                   *)
NeedsCondenseAlways(chat_history) == TRUE

(* "if chat_history_str:" of the chain: the question generator runs only    *)
(* when the rendered history is not empty.                                  *)
NeedsCondense(chat_history) == chat_history # <<>>

(* A chain that always retrieves with the question as it was asked.         *)
StandaloneQuestionRaw(question, chat_history, condensed) == question

(* new_question of the chain: the question itself without history, else     *)
(* the output of the question generator; it is the retriever's query and    *)
(* the question of the answering prompt.                                    *)
StandaloneQuestion(question, chat_history, condensed) ==
    IF chat_history # <<>> THEN condensed ELSE question

(* One "llm" step per request posted to the completion endpoint.            *)
LlmSteps(sent) == [i \in 1..Len(sent) |-> "llm"]

(* The steps after the question is settled: retrieve, answer, save.         *)
AnswerStep(question, mem, chat_history, new_question, sent1, retrieval, answerReply) ==
    IF retrieval.raised
    THEN [raised |-> TRUE, error |-> [exc |-> "Retrieval", status |-> 0, body |-> ""],
          answer |-> "", docs |-> <<>>,
          memory |-> prep_outputs(mem, question, TRUE, ""),
          sent |-> sent1, queries |-> <<new_question>>, prompt |-> NoPrompt,
          steps |-> LlmSteps(sent1) \o <<"retrieve">>]
    ELSE The({The({IF final.raised
                   THEN [raised |-> TRUE, error |-> final.error, answer |-> "",
                         docs |-> <<>>,
                         memory |-> prep_outputs(mem, question, TRUE, ""),
                         sent |-> sent1 \o final.sent,
                         queries |-> <<new_question>>, prompt |-> prompt,
                         steps |-> LlmSteps(sent1) \o <<"retrieve">> \o LlmSteps(final.sent)]
                   ELSE [raised |-> FALSE, error |-> NoError, answer |-> final.content,
                         docs |-> retrieval.docs,
                         memory |-> prep_outputs(mem, question, FALSE, final.content),
                         sent |-> sent1 \o final.sent,
                         queries |-> <<new_question>>, prompt |-> prompt,
                         steps |-> LlmSteps(sent1) \o <<"retrieve">>
                                    \o LlmSteps(final.sent) \o <<"save">>] :
                            final \in {_generate(<<HumanMessage(prompt)>>, answerReply)}}) :
                prompt \in {AssemblePrompt(retrieval.docs, chat_history, new_question)}})

Invoke(question, mem, condenseReply, retrieval, answerReply) ==
    The({IF ~NeedsCondense(chat_history)
         THEN AnswerStep(question, mem, chat_history,
                         StandaloneQuestion(question, chat_history, ""),
                         <<>>, retrieval, answerReply)
         ELSE The({IF condense.raised
                   THEN [raised |-> TRUE, error |-> condense.error, answer |-> "",
                         docs |-> <<>>,
                         memory |-> prep_outputs(mem, question, TRUE, ""),
                         sent |-> condense.sent, queries |-> <<>>, prompt |-> NoPrompt,
                         steps |-> LlmSteps(condense.sent)]
                   ELSE AnswerStep(question, mem, chat_history,
                                   StandaloneQuestion(question, chat_history,
                                                      condense.content),
                                   condense.sent, retrieval, answerReply) :
                        condense \in {_generate(
                            <<HumanMessage(CondensePrompt(chat_history, question))>>,
                            condenseReply)}}) :
            chat_history \in {get_chat_history(mem)}})

----------------------------------------------------------------------------
(* Request handlers and lifespan of app/api.py                              *)

(* A Chroma handle and a chain over its retriever; id 0 is Python's None.   *)
NoStore == [id |-> 0]
Store(id) == [id |-> id]
NoChain == [store |-> NoStore]
Chain(store) == [store |-> store]

AppState(vector_store, chain, initialized) ==
    [vector_store |-> vector_store, chain |-> chain, initialized |-> initialized]

Unset == AppState(NoStore, NoChain, FALSE)

(* A handle id no object of app_state refers to.                            *)
InUse(st) ==
    {st.vector_store.id, st.chain.store.id} \ {NoStore.id}

FreshId(st) == CHOOSE i \in 1..3 : i \notin InUse(st) /\ \A j \in 1..(i - 1) : j \in InUse(st)

(* Handles that lost their directory: those already lost and, when this     *)
(* call removed the directory, every handle app_state refers to.            *)
Removed(gone, st, dir, deleted) ==
    gone \cup (IF deleted THEN {[id |-> i, entries |-> dir.entries] : i \in InUse(st)} ELSE {})

Prune(gone, st) == {g \in gone : g.id \in InUse(st)}

(* A create_chatbot whose chains share one memory object.                   *)
create_chatbotSharedMemory(vector_store, key) ==
    IF ~key THEN [raised |-> TRUE, chain |-> NoChain, memory |-> <<>>]
    ELSE [raised |-> FALSE, chain |-> Chain(vector_store), memory |-> memory]

(* create_chatbot: raises without GROQ_API_KEY, else a chain over the       *)
(* store's retriever with a new, empty ConversationBufferMemory.            *)
create_chatbot(vector_store, key) ==
    IF ~key THEN [raised |-> TRUE, chain |-> NoChain, memory |-> <<>>]
    ELSE [raised |-> FALSE, chain |-> Chain(vector_store), memory |-> <<>>]

Blank ==
    [op |-> "none", status |-> 0, detail |-> "", cause |-> "", error |-> NoError,
     force |-> FALSE, result |-> "", question |-> "",
     appBefore |-> Unset, memBefore |-> <<>>, dirBefore |-> Absent,
     invoked |-> FALSE, sent |-> <<>>, queries |-> <<>>, staleRead |-> FALSE,
     prompt |-> NoPrompt, answer |-> "", sources |-> <<>>, initialized |-> FALSE,
     steps |-> <<>>, docs |-> <<>>, condensed |-> "", replied |-> ""]

Observed(op) ==
    [Blank EXCEPT !.op = op, !.appBefore = app_state, !.memBefore = memory,
                  !.dirBefore = persisted]

(* A check that lets the None sentinel through.                             *)
InitSucceededUnchecked(result, botRaised) == result # "raise" /\ ~botRaised

(* "if not vector_store: raise" and the exception of create_chatbot: the    *)
(* request succeeds when a store came back and the chain was created.       *)
InitSucceeded(result, botRaised) == result = "store" /\ ~botRaised

(* The body shared by lifespan startup and POST /initialize: the system is  *)
(* built, and app_state is assigned only when a store came back and the     *)
(* chain could be created.                                                  *)
InitOutcome(force_recreate, fault) ==
    The({[ok |-> ok,
          result |-> built.result,
          cause |-> IF built.result = None THEN "Failed to create vector store"
                    ELSE IF built.result = "raise" THEN fault
                    ELSE IF bot.raised THEN "GROQ_API_KEY not found"
                    ELSE "",
          dirExists |-> built.dirExists,
          persisted |-> built.persisted,
          deleted |-> built.deleted,
          app |-> IF ok THEN AppState(store, bot.chain, TRUE)
                  ELSE IF built.result = "store" THEN [app_state EXCEPT !.vector_store = store]
                  ELSE app_state,
          memory |-> IF ok THEN bot.memory ELSE memory] :
            built \in {initialize_rag_system(docDirExists, files, persisted,
                                             force_recreate, fault)},
            store \in {Store(FreshId(app_state))},
            bot \in {create_chatbot(Store(FreshId(app_state)), apiKey)},
            ok \in {InitSucceeded(
                        initialize_rag_system(docDirExists, files, persisted,
                                              force_recreate, fault).result,
                        create_chatbot(Store(FreshId(app_state)), apiKey).raised)}})

(* lifespan, up to the yield: initialize without force_recreate; whatever   *)
(* is raised is caught and the service starts uninitialized.                *)
Startup ==
    /\ phase = "boot"
    /\ \E fault \in Faults :
        \E out \in {InitOutcome(FALSE, fault)} :
            /\ app_state' = out.app
            /\ memory' = out.memory
            /\ served' = (IF out.ok THEN 0 ELSE served)
            /\ persisted' = out.persisted
            /\ docDirExists' = out.dirExists
            /\ removed' = Prune(Removed(removed, app_state, persisted, out.deleted), out.app)
            /\ last' = [Observed("startup") EXCEPT
                            !.status = IF out.ok THEN HTTP_OK ELSE 0,
                            !.cause = out.cause, !.result = out.result]
    /\ phase' = "serving"
    /\ UNCHANGED <<apiKey, files, gen, ld, vs>>

(* POST /initialize                                                         *)
initialize_system ==
    /\ phase = "serving"
    /\ \E force_recreate \in BOOLEAN, fault \in Faults :
        \E out \in {InitOutcome(force_recreate, fault)} :
            /\ app_state' = out.app
            /\ memory' = out.memory
            /\ served' = (IF out.ok THEN 0 ELSE served)
            /\ persisted' = out.persisted
            /\ docDirExists' = out.dirExists
            /\ removed' = Prune(Removed(removed, app_state, persisted, out.deleted), out.app)
            /\ last' = [Observed("initialize") EXCEPT
                            !.status = IF out.ok THEN HTTP_OK ELSE 500,
                            !.detail = IF out.ok THEN "System initialized successfully"
                                       ELSE "Initialization failed",
                            !.cause = out.cause, !.result = out.result,
                            !.force = force_recreate]
    /\ UNCHANGED <<phase, apiKey, files, gen, ld, vs>>

(* Chain.prep_inputs: the memory's chat_history replaces the request's.     *)
PrepInputs(question, request_history, mem) ==
    [question |-> question, chat_history |-> mem]

(* Sources that copy the metadata without the defaults.                     *)
FormatSourcesRaw(docs) ==
    [i \in 1..Len(docs) |->
        [source |-> docs[i].source, page_content |-> docs[i].text,
         page |-> docs[i].page, type |-> docs[i].type]]

(* The sources of the response, one per retrieved document in the order of  *)
(* source_documents: metadata.get("source", "Unknown"), page_content,       *)
(* metadata.get("page") (NoPage stands for the null of a missing key) and   *)
(* metadata.get("type", "unknown").                                         *)
FormatSources(docs) ==
    [i \in 1..Len(docs) |->
        [source |-> IF docs[i].source = Missing THEN "Unknown" ELSE docs[i].source,
         page_content |-> docs[i].text,
         page |-> docs[i].page,
         type |-> IF docs[i].type = Missing THEN "unknown" ELSE docs[i].type]]

(* A guard that looks at the store instead of the flag and the chain.       *)
NotReadyStoreOnly(st) == st.vector_store = NoStore

NotReady(st) == ~st.initialized \/ st.chain = NoChain

(* POST /chat, refused before initialization                                *)
ChatRefused ==
    /\ phase = "serving"
    /\ NotReady(app_state)
    /\ \E request \in ChatRequests :
        last' = [Observed("chat") EXCEPT
                    !.status = 400, !.detail = "System not initialized",
                    !.question = request.question]
    /\ UNCHANGED <<phase, apiKey, docDirExists, files, persisted, removed,
                   app_state, memory, served, gen, ld, vs>>

(* POST /chat on an initialized service                                     *)
chat ==
    /\ phase = "serving"
    /\ ~NotReady(app_state)
    /\ Len(memory) < 2 * MaxChats
    /\ \E request \in ChatRequests,
          condenseReply \in (IF memory = <<>> THEN {Timeout} ELSE HttpReplies) :
       \E retrieval \in (IF memory # <<>> /\ GenerateOutcome(condenseReply).raised
                          THEN {[raised |-> TRUE, docs |-> <<>>]}
                          ELSE RetrievalOutcomes(app_state.chain.store, persisted, removed)) :
       \E answerReply \in (IF retrieval.raised THEN {Timeout} ELSE HttpReplies) :
       \E inputs \in {PrepInputs(request.question, request.chat_history, memory)} :
       \E out \in {Invoke(inputs.question, inputs.chat_history,
                          condenseReply, retrieval, answerReply)} :
            /\ memory' = out.memory
            /\ served' = (IF out.raised THEN served ELSE served + 1)
            /\ last' = [Observed("chat") EXCEPT
                            !.status = IF out.raised THEN 500 ELSE HTTP_OK,
                            !.detail = IF out.raised THEN "Error generating response" ELSE "",
                            !.error = out.error,
                            !.question = request.question,
                            !.invoked = TRUE,
                            !.sent = out.sent,
                            !.queries = out.queries,
                            !.staleRead = /\ out.queries # <<>>
                                          /\ \E g \in removed : g.id = app_state.chain.store.id,
                            !.prompt = out.prompt,
                            !.answer = out.answer,
                            !.sources = FormatSources(out.docs),
                            !.steps = out.steps,
                            !.docs = out.docs,
                            !.condensed = IF memory = <<>> THEN ""
                                          ELSE GenerateOutcome(condenseReply).content,
                            !.replied = IF retrieval.raised THEN ""
                                        ELSE GenerateOutcome(answerReply).content]
    /\ UNCHANGED <<phase, apiKey, docDirExists, files, persisted, removed,
                   app_state, gen, ld, vs>>

(* GET /health                                                              *)
health_check ==
    /\ phase = "serving"
    /\ last' = [Observed("health") EXCEPT
                    !.status = HTTP_OK, !.detail = "healthy",
                    !.initialized = app_state.initialized]
    /\ UNCHANGED <<phase, apiKey, docDirExists, files, persisted, removed,
                   app_state, memory, served, gen, ld, vs>>

(* lifespan, after the yield                                                *)
Shutdown ==
    /\ phase = "serving"
    /\ phase' = "stopped"
    /\ app_state' = Unset
    /\ removed' = {}
    /\ last' = Observed("shutdown")
    /\ UNCHANGED <<apiKey, docDirExists, files, persisted, memory, served, gen, ld, vs>>

(* Directory listings the documents folder starts with.                     *)
Listings == {<<>>, <<BlankTxt>>, <<BadPdf, GoodTxt>>, <<GoodPdf>>}

(* A vector_store directory written before this run by another build: more *)
(* entries than the retriever returns, some without the metadata keys the   *)
(* loader of this program sets.                                             *)
LegacyIndex ==
    Index(<<[text |-> "o1", source |-> "old.pdf", type |-> "pdf", page |-> 4],
            [text |-> "o2", source |-> "old.txt", type |-> Missing, page |-> NoPage],
            [text |-> "o3", source |-> Missing, type |-> "txt", page |-> NoPage],
            [text |-> "o4", source |-> Missing, type |-> Missing, page |-> 0]>>)

Idle == [fn |-> "none"]

Init ==
    /\ phase = "boot"
    /\ apiKey \in BOOLEAN
    /\ docDirExists \in BOOLEAN
    /\ files \in (IF docDirExists THEN Listings ELSE {<<>>})
    /\ persisted \in {Absent}
            \cup {Index(split_documents(load_documents(TRUE, l).docs)) :
                    l \in {m \in Listings : split_documents(load_documents(TRUE, m).docs) # <<>>}}
            \cup {LegacyIndex}
    /\ removed = {}
    /\ app_state = Unset
    /\ memory = <<>>
    /\ served = 0
    /\ last = Blank
    /\ gen = Idle
    /\ ld = Idle
    /\ vs = Idle

Next ==
    \/ Startup
    \/ initialize_system
    \/ ChatRefused
    \/ chat
    \/ health_check
    \/ Shutdown

Spec == Init /\ [][Next]_vars

----------------------------------------------------------------------------
(* GroqChatModel._generate applied to arbitrary message lists and replies   *)

Contents == {Text("hi"), Parts("img")}
Messages ==
    {Msg(t, "", c) : t \in {"human", "ai", "system", "tool"}, c \in Contents}
        \cup {Msg("chat", r, c) : r \in {"user", "system", "moderator"}, c \in Contents}

GenReplies ==
    HttpReplies \cup {Reply(429, "rate limited"), Reply(503, "")}

SysInit ==
    /\ phase = "boot"
    /\ apiKey = TRUE
    /\ docDirExists = TRUE
    /\ files = <<>>
    /\ persisted = Absent
    /\ removed = {}
    /\ app_state = Unset
    /\ memory = <<>>
    /\ served = 0
    /\ last = Blank

InitGen ==
    /\ SysInit
    /\ gen \in {[fn |-> "input", messages |-> m, reply |-> r] :
                    m \in SeqsUpTo(Messages, MaxMsgs), r \in GenReplies}
    /\ ld = Idle
    /\ vs = Idle

GenerateCall ==
    /\ gen.fn = "input"
    /\ gen' = [fn |-> "result", messages |-> gen.messages, reply |-> gen.reply,
               out |-> _generate(gen.messages, gen.reply)]
    /\ UNCHANGED <<sysvars, ld, vs>>

NextGen == GenerateCall

SpecGen == InitGen /\ [][NextGen]_vars

----------------------------------------------------------------------------
(* load_documents applied to arbitrary directories                          *)

FileCatalog == {GoodTxt, BlankTxt, BadTxt, GoodPdf, BadPdf}

DistinctNames(listing) ==
    \A i, j \in 1..Len(listing) : i # j => listing[i].name # listing[j].name

InitLoad ==
    /\ SysInit
    /\ ld \in {[fn |-> "input", dirExists |-> TRUE, listing |-> l] :
                    l \in {m \in SeqsUpTo(FileCatalog, MaxFiles) : DistinctNames(m)}}
              \cup {[fn |-> "input", dirExists |-> FALSE, listing |-> <<>>]}
    /\ gen = Idle
    /\ vs = Idle

LoadCall ==
    /\ ld.fn = "input"
    /\ ld' = [fn |-> "result", dirExists |-> ld.dirExists, listing |-> ld.listing,
              out |-> load_documents(ld.dirExists, ld.listing)]
    /\ UNCHANGED <<sysvars, gen, vs>>

NextLoad == LoadCall

SpecLoad == InitLoad /\ [][NextLoad]_vars

----------------------------------------------------------------------------
(* create_vector_store applied to arbitrary chunks and directories          *)

ChunkCatalog == Range(split_documents(FileRecords(GoodPdf)))

InitOpen ==
    /\ SysInit
    /\ vs \in {[fn |-> "input", chunks |-> c, dir |-> d, force_recreate |-> f, fault |-> x] :
                    c \in SeqsUpTo(ChunkCatalog, MaxChunks),
                    d \in {Absent, Index(<<>>)}
                            \cup {Index(split_documents(FileRecords(g))) : g \in {GoodTxt, GoodPdf}},
                    f \in BOOLEAN, x \in Faults}
    /\ gen = Idle
    /\ ld = Idle

OpenCall ==
    /\ vs.fn = "input"
    /\ vs' = [fn |-> "result", chunks |-> vs.chunks, dir |-> vs.dir,
              force_recreate |-> vs.force_recreate, fault |-> vs.fault,
              out |-> create_vector_store(vs.chunks, vs.dir, vs.force_recreate, vs.fault)]
    /\ UNCHANGED <<sysvars, gen, ld>>

NextOpen == OpenCall

SpecOpen == InitOpen /\ [][NextOpen]_vars

----------------------------------------------------------------------------
(* Properties                                                               *)

(* A rendered chat history mentions a turn verbatim under its role.         *)
Mentions(history, turn) ==
    \E k \in 1..(Len(history) - 1) :
        /\ history[k] = (IF turn.type = "human" THEN "Human: " ELSE "Assistant: ")
        /\ history[k + 1] = turn.content

(* C1: a chat request served while the service is not initialized (the     *)
(* flag is false or no chain is set) is answered with the 400               *)
(* "System not initialized" error, without invoking the chain, without any  *)
(* retrieval or language-model request, and with app_state and the          *)
(* conversation memory left as they were.                                   *)
C1_NotInitialized ==
    (last.op = "chat" /\ (~last.appBefore.initialized \/ last.appBefore.chain = NoChain)) =>
        /\ last.status = 400
        /\ last.detail = "System not initialized"
        /\ ~last.invoked
        /\ last.sent = <<>>
        /\ last.queries = <<>>
        /\ app_state = last.appBefore
        /\ memory = last.memBefore

C1_Witness ==
    /\ last.op = "chat"
    /\ last.status = 400
    /\ ~last.appBefore.initialized
    /\ last.appBefore.vector_store # NoStore

(* C2: a chat call that fails (retrieval error, language-model error status *)
(* or timeout, on the condensing or on the answering request) leaves the    *)
(* conversation memory identical to what it was before the call.            *)
C2_FailedChatKeepsHistory ==
    (last.op = "chat" /\ last.status # HTTP_OK) => memory = last.memBefore

C2_Witness ==
    /\ last.op = "chat"
    /\ last.status = 500
    /\ last.error.exc = "ValueError"
    /\ last.error.status = 500
    /\ last.memBefore # <<>>
    /\ Len(last.sent) = 2

(* C3: a successful chat appends the question and then the answer to the    *)
(* memory, and the prompt assembled for a chat carries, in its chat-history *)
(* section, every turn the memory held when the call began, verbatim and    *)
(* in order; so the second of two successful chats sees the first one's     *)
(* question and answer.                                                     *)
C3_HistoryThreaded ==
    /\ (last.op = "chat" /\ last.status = HTTP_OK) =>
            /\ memory = last.memBefore
                            \o <<HumanMessage(last.question), AIMessage(last.answer)>>
            /\ Len(last.prompt.chat_history) = 3 * Len(last.memBefore)
            /\ \A i \in 1..Len(last.memBefore) :
                    /\ last.prompt.chat_history[3 * i - 1]
                            = (IF last.memBefore[i].type = "human" THEN "Human: " ELSE "Assistant: ")
                    /\ last.prompt.chat_history[3 * i] = last.memBefore[i].content
                    /\ Mentions(last.prompt.chat_history, last.memBefore[i])

C3_Witness ==
    /\ last.op = "chat"
    /\ last.status = HTTP_OK
    /\ Len(last.memBefore) = 2
    /\ last.memBefore[1].content = "q1"
    /\ Mentions(last.prompt.chat_history, HumanMessage("q1"))
    /\ Mentions(last.prompt.chat_history, AIMessage("a1"))
    /\ Len(memory) = 4

(* C4: create_vector_store, whenever it returns: with force_recreate an     *)
(* existing index is deleted and the index, if one results, holds exactly   *)
(* the chunks; without force_recreate an existing index is loaded as it is  *)
(* and the chunks are ignored; without an existing index a fresh one is     *)
(* built from the chunks; and None is returned exactly when the chunks are  *)
(* empty and no persisted index exists when the build is reached.           *)
C4_OpenCaseSplit ==
    (vs.fn = "result" /\ vs.out.result # "raise") =>
        /\ vs.force_recreate =>
                /\ vs.dir.exists => vs.out.deleted
                /\ vs.out.result = "store" => vs.out.persisted = Index(vs.chunks)
        /\ (~vs.force_recreate /\ vs.dir.exists) =>
                /\ vs.out.result = "store"
                /\ ~vs.out.deleted
                /\ vs.out.persisted = vs.dir
        /\ (~vs.force_recreate /\ ~vs.dir.exists /\ vs.out.result = "store") =>
                vs.out.persisted = Index(vs.chunks)
        /\ vs.out.result = None <=>
                /\ vs.chunks = <<>>
                /\ ~vs.out.persisted.exists
        /\ vs.out.result = "store" => vs.out.persisted.exists

C4_Witness ==
    /\ vs.fn = "result"
    /\ vs.force_recreate
    /\ vs.dir.exists
    /\ vs.dir.entries # <<>>
    /\ vs.chunks # <<>>
    /\ vs.out.result = "store"
    /\ vs.out.deleted
    /\ vs.out.persisted.entries = vs.chunks

(* C5: POST /initialize with force_recreate and a documents directory that  *)
(* yields no document ends in the 500 "Initialization failed" response      *)
(* whose cause is the missing vector store, and the service stays up: it is *)
(* still serving and its health and initialize handlers remain enabled.     *)
C5_IngestEmpty ==
    (/\ last.op = "initialize"
     /\ last.force
     /\ \A i \in 1..Len(files) : ~files[i].ok) =>
        /\ last.status = 500
        /\ last.detail = "Initialization failed"
        /\ last.cause = "Failed to create vector store"
        /\ phase = "serving"
        /\ ENABLED health_check
        /\ ENABLED initialize_system
        /\ Len(memory) < 2 * MaxChats => (ENABLED chat \/ ENABLED ChatRefused)

C5_Witness ==
    /\ last.op = "initialize"
    /\ last.force
    /\ files = <<>>
    /\ last.status = 500
    /\ last.appBefore.initialized
    /\ app_state.initialized

(* C6: startup or POST /initialize without force_recreate over an existing  *)
(* persisted index never fails for want of documents, succeeds whenever     *)
(* the store opens and the chain can be created, and leaves the persisted   *)
(* entries exactly as they were, whatever the documents directory holds,    *)
(* so the new store retrieves from the same entries as before the call.     *)
C6_ReuseIdempotent ==
    (/\ last.op \in {"initialize", "startup"}
     /\ ~last.force
     /\ last.dirBefore.exists) =>
        /\ persisted = last.dirBefore
        /\ last.result # None
        /\ last.cause \in {"", "embeddings", "load", "GROQ_API_KEY not found"}
        /\ last.cause = "" =>
                /\ app_state.initialized
                /\ app_state.vector_store # NoStore
                /\ app_state.chain = Chain(app_state.vector_store)
                /\ memory = <<>>
                /\ \A g \in removed : g.id # app_state.vector_store.id
                /\ RetrievalOutcomes(app_state.vector_store, persisted, removed)
                        = RetrievalOutcomes(app_state.vector_store, last.dirBefore, {})
                /\ last.op = "initialize" => last.status = HTTP_OK

C6_Witness ==
    /\ last.op = "initialize"
    /\ ~last.force
    /\ last.dirBefore.exists
    /\ last.dirBefore.entries # <<>>
    /\ files = <<GoodPdf>>
    /\ last.dirBefore.entries # split_documents(load_documents(TRUE, files).docs)
    /\ last.appBefore.initialized
    /\ last.status = HTTP_OK
    /\ persisted = last.dirBefore

(* C7: one _generate call posts exactly one HTTP request; when the response *)
(* status is not 200 (in particular for every non-success status) the call  *)
(* raises an error that carries the status and the body verbatim, and no    *)
(* reply is returned.                                                       *)
C7_OneRequestHardFailure ==
    gen.fn = "result" =>
        /\ Len(gen.out.sent) = 1
        /\ (gen.reply.kind = "response" /\ gen.reply.status # HTTP_OK) =>
                /\ gen.out.raised
                /\ gen.out.error.status = gen.reply.status
                /\ gen.out.error.body = gen.reply.text
                /\ gen.out.content = ""
        /\ gen.reply.kind = "timeout" => gen.out.raised

C7_Witness ==
    /\ gen.fn = "result"
    /\ gen.reply.kind = "response"
    /\ gen.reply.status = 429
    /\ gen.out.raised
    /\ gen.out.error.body = "rate limited"
    /\ Len(gen.out.sent) = 1

(* The role a message has in the message protocol.                          *)
RoleOf(msg) ==
    IF msg.type = "human" THEN "user"
    ELSE IF msg.type = "ai" THEN "assistant"
    ELSE IF msg.type = "chat" THEN msg.role
    ELSE msg.type

(* C8 as stated: every message whose role is not user, assistant or system  *)
(* is sent with role "user", order and content are preserved, and the call  *)
(* does not fail because of a role.                                         *)
C8_UnknownRolesCoerced ==
    gen.fn = "result" =>
        /\ Len(gen.out.sent[1]) = Len(gen.messages)
        /\ \A i \in 1..Len(gen.messages) :
                /\ RoleOf(gen.messages[i]) \notin {"user", "assistant", "system"} =>
                        gen.out.sent[1][i].role = "user"
                /\ gen.out.sent[1][i].content = gen.messages[i].content
        /\ gen.out.raised <=> (gen.reply.kind = "timeout" \/ gen.reply.status # HTTP_OK)

(* C8 amended: a HumanMessage is sent as "user", an AIMessage as            *)
(* "assistant", a ChatMessage under its own role whatever it is, and a      *)
(* message of any other class as "user"; the order is preserved; the        *)
(* content is preserved for the first three and passed through str() for    *)
(* the other classes; failure depends on the reply alone.                   *)
C8_TranslationByClass ==
    gen.fn = "result" =>
        /\ Len(gen.out.sent[1]) = Len(gen.messages)
        /\ \A i \in 1..Len(gen.messages) :
                /\ gen.messages[i].type = "human" => gen.out.sent[1][i].role = "user"
                /\ gen.messages[i].type = "ai" => gen.out.sent[1][i].role = "assistant"
                /\ gen.messages[i].type = "chat" =>
                        gen.out.sent[1][i].role = gen.messages[i].role
                /\ gen.messages[i].type \notin {"human", "ai", "chat"} =>
                        gen.out.sent[1][i].role = "user"
                /\ gen.messages[i].type \in {"human", "ai", "chat"} =>
                        gen.out.sent[1][i].content = gen.messages[i].content
                /\ gen.messages[i].type \notin {"human", "ai", "chat"} =>
                        /\ gen.out.sent[1][i].content.kind = "str"
                        /\ gen.messages[i].content.kind = "str" =>
                                gen.out.sent[1][i].content = gen.messages[i].content
        /\ gen.out.raised <=> (gen.reply.kind = "timeout" \/ gen.reply.status # HTTP_OK)

C8_Witness ==
    /\ gen.fn = "result"
    /\ Len(gen.messages) = 2
    /\ gen.messages[1].type = "chat"
    /\ gen.messages[1].role = "moderator"
    /\ gen.out.sent[1][1].role = "moderator"
    /\ gen.messages[2].type = "tool"
    /\ gen.out.sent[1][2].role = "user"
    /\ ~gen.out.raised

(* C9 as stated, for the part a run of requests can break: no chat          *)
(* retrieval runs on a store whose persisted index was deleted and has not  *)
(* been rebuilt.                                                            *)
C9_NoRetrievalOnDeletedIndex ==
    ~(last.op = "chat" /\ last.staleRead)

(* The records load_documents is to return for a listing: those of the      *)
(* files that extract.                                                      *)
Extracted(listing) ==
    UNION {Range(FileRecords(listing[i])) : i \in {j \in 1..Len(listing) : listing[j].ok}}

(* C10: load_documents never raises; its result holds exactly the records   *)
(* of the files that extract, each once and tagged with its file's name and *)
(* type, whatever files fail before or after them; a missing directory is   *)
(* created and yields no record.                                            *)
C10_PartialFailureTolerant ==
    ld.fn = "result" =>
        /\ ~ld.out.raised
        /\ ld.out.dirExists
        /\ Range(ld.out.docs) = Extracted(ld.listing)
        /\ Cardinality(Range(ld.out.docs)) = Len(ld.out.docs)
        /\ \A i \in 1..Len(ld.out.docs) :
                \E j \in 1..Len(ld.listing) :
                    /\ ld.listing[j].ok
                    /\ ld.out.docs[i].source = ld.listing[j].name
                    /\ ld.out.docs[i].type = ld.listing[j].ext
        /\ ~ld.dirExists => ld.out.docs = <<>>

C10_Witness ==
    /\ ld.fn = "result"
    /\ Len(ld.listing) = 3
    /\ ld.listing[1] = BadPdf
    /\ ld.listing[2] = GoodPdf
    /\ ld.listing[3] = GoodTxt
    /\ Len(ld.out.docs) = 3
    /\ ld.out.docs[3].source = "notes.txt"

(* s is an initial part of t.                                               *)
IsPrefix(s, t) == Len(s) <= Len(t) /\ \A i \in 1..Len(s) : s[i] = t[i]

(* The steps of a chain.invoke that runs to its end, for the memory it      *)
(* starts with: with history a condensing model call comes first.           *)
ExpectedSteps(mem) ==
    IF mem = <<>> THEN <<"retrieve", "llm", "save">>
    ELSE <<"llm", "retrieve", "llm", "save">>

C13_SourcesMirrorRetrieval ==
    (last.op = "chat" /\ last.status = HTTP_OK) =>
        /\ last.answer = last.replied
        /\ Len(last.sources) = Len(last.docs)
        /\ last.prompt.context = [i \in 1..Len(last.docs) |-> last.docs[i].text]
        /\ \A i \in 1..Len(last.docs) :
                /\ last.sources[i].page_content = last.docs[i].text
                /\ last.sources[i].page = last.docs[i].page
                /\ last.docs[i].source # Missing =>
                        last.sources[i].source = last.docs[i].source
                /\ last.docs[i].source = Missing => last.sources[i].source = "Unknown"
                /\ last.docs[i].type # Missing => last.sources[i].type = last.docs[i].type
                /\ last.docs[i].type = Missing => last.sources[i].type = "unknown"

C13_Witness ==
    /\ last.op = "chat"
    /\ last.status = HTTP_OK
    /\ Len(last.sources) = 3
    /\ last.docs[1].text = "o2"
    /\ last.docs[1].type = Missing
    /\ last.sources[1] = [source |-> "old.txt", page_content |-> "o2",
                          page |-> NoPage, type |-> "unknown"]
    /\ last.sources[2].page_content = "o1"
    /\ last.sources[2].page = 4
    /\ last.sources[2].type = "pdf"

(* C14 as stated: an initialize request that answers with an error leaves   *)
(* app_state and the persisted index exactly as they were before it.        *)
C14_FailedInitializeAtomic ==
    (last.op = "initialize" /\ last.status = 500) =>
        /\ app_state = last.appBefore
        /\ persisted = last.dirBefore

(* C15 as stated: after startup the three fields of app_state are either    *)
(* all unset, or all set with the chain built over the store held.          *)
C15_FieldsChangeTogether ==
    phase = "serving" =>
        \/ app_state = Unset
        \/ /\ app_state.vector_store # NoStore
           /\ app_state.chain = Chain(app_state.vector_store)
           /\ app_state.initialized

(* C16: the memory of the current chain is a sequence of alternating human  *)
(* and AI turns that starts with a human turn, two turns for each chat the  *)
(* chain has answered, each pair the question and the answer of one chat;   *)
(* a chat adds its pair whole and at the end, or adds nothing.              *)
C16_HistoryAlternates ==
    /\ app_state.chain # NoChain =>
            /\ Len(memory) = 2 * served
            /\ \A i \in 1..Len(memory) :
                    memory[i].type = (IF i % 2 = 1 THEN "human" ELSE "ai")
    /\ (last.op = "chat" /\ last.invoked) =>
            /\ IsPrefix(last.memBefore, memory)
            /\ Len(memory) - Len(last.memBefore) \in {0, 2}
            /\ last.status = HTTP_OK =>
                    /\ memory[Len(memory) - 1] = HumanMessage(last.question)
                    /\ memory[Len(memory)] = AIMessage(last.answer)

C16_Witness ==
    /\ last.op = "chat"
    /\ last.status = HTTP_OK
    /\ served = 2
    /\ Len(memory) = 4
    /\ memory[3] = HumanMessage("q2")
    /\ memory[1] = HumanMessage("q1")

(* C17: an initialize request that succeeds, forced or not, on a service    *)
(* initialized or not, puts a newly built chain with an empty memory in     *)
(* app_state; the chat-history section of a chat's prompt renders exactly   *)
(* the turns of the chats the current chain answered before it, so nothing  *)
(* recorded before the chain was built; an initialize request that fails    *)
(* leaves the chain and its memory as they were.                            *)
C17_InitializeResetsHistory ==
    /\ (last.op = "initialize" /\ last.status = HTTP_OK) =>
            /\ memory = <<>>
            /\ served = 0
            /\ app_state.initialized
            /\ app_state.chain # NoChain
            /\ app_state.chain # last.appBefore.chain
    /\ (last.op = "initialize" /\ last.status = 500) =>
            /\ memory = last.memBefore
            /\ app_state.chain = last.appBefore.chain
    /\ (last.op = "chat" /\ last.status = HTTP_OK) =>
            /\ last.prompt.chat_history = get_chat_history(last.memBefore)
            /\ Len(last.memBefore) = 2 * (served - 1)

C17_Witness ==
    /\ last.op = "initialize"
    /\ last.status = HTTP_OK
    /\ last.appBefore.initialized
    /\ Len(last.memBefore) = 4
    /\ memory = <<>>
    /\ app_state.chain # last.appBefore.chain

====
